---------------------------- MODULE Spec2Model ----------------------------
(***************************************************************************)
(* String conversions of libpqxx (strconv.cxx) and row slicing (row.cxx).  *)
(*                                                                         *)
(* A text is a sequence of one-character strings.  The hand-rolled parsers *)
(* read str.data()[i] one past the view's last character and expect the    *)
(* terminating zero of the underlying buffer there: CharAt gives NUL at    *)
(* and beyond the text's length, and no text holds NUL itself.             *)
(*                                                                         *)
(* Integer values are TLC integers (32-bit).  short, unsigned short and    *)
(* int have their real limits; the 64-bit types long long and unsigned     *)
(* long long run the same templates with numeric_limits of WideBits bits.  *)
(***************************************************************************)
EXTENDS Integers, Sequences, FiniteSets, TLC

VARIABLES
    call,      \* the conversion call that completed last, with its outcome
    istream,   \* from_string_float's thread_local stream S, per thread
    ostream,   \* to_string_fallback's thread_local stream s, per thread
    tpc,       \* per thread: the step of the conversion it is running
    treq,      \* per thread: the conversion it is running
    tres,      \* per thread: the outcome of the conversion it finished last
    tloc,      \* per thread: the locals ok and result of from_string_float
    users,     \* per thread's stream instances: the threads that used them
    row,       \* the row at hand: m_index, m_begin, m_end and its result's columns
    rowop      \* the row operation that completed last, with its outcome

vars == <<call, istream, ostream, tpc, treq, tres, tloc, users, row, rowop>>

-----------------------------------------------------------------------------
(* Bounds of the model *)

\* Width given to the 64-bit integer types.
WideBits == 20
\* Integer values are sampled within this distance of each landmark.
Radius == 3
\* Longest text drawn from the alphabets.
MaxLen == 3

-----------------------------------------------------------------------------
(* Characters and texts *)

NUL == "NUL"

DigitChars == <<"0", "1", "2", "3", "4", "5", "6", "7", "8", "9">>

CharAt(str, i) == IF i < Len(str) THEN str[i + 1] ELSE NUL

isdigit(c) == \E k \in 1..10 : DigitChars[k] = c

digit_to_number(c) == (CHOOSE k \in 1..10 : DigitChars[k] = c) - 1

number_to_digit(n) == DigitChars[n + 1]

equal(lhs, rhs) == lhs = rhs

RECURSIVE Pow2(_)
Pow2(n) == IF n = 0 THEN 1 ELSE 2 * Pow2(n - 1)

\* C++ integer division truncates toward zero; \div rounds down.
CDiv(a, b) == IF a >= 0 \/ a % b = 0 THEN a \div b ELSE (a \div b) + 1

-----------------------------------------------------------------------------
(* Integer types *)

IntTypes == {"short", "unsigned short", "int", "long long", "unsigned long long"}

is_signed(T) == T \in {"short", "int", "long long"}

numeric_limits_max(T) ==
    CASE T = "short" -> 32767
      [] T = "unsigned short" -> 65535
      [] T = "int" -> 2147483647
      [] T = "long long" -> Pow2(WideBits - 1) - 1
      [] T = "unsigned long long" -> Pow2(WideBits) - 1

numeric_limits_min(T) ==
    CASE T = "short" -> -32768
      [] T = "int" -> -2147483647 - 1
      [] T = "long long" -> -Pow2(WideBits - 1)
      [] OTHER -> 0

InRange(T, x) == numeric_limits_min(T) <= x /\ x <= numeric_limits_max(T)

-----------------------------------------------------------------------------
(* Errors: a conversion_error with the parts of its message *)

NoError == [head |-> "", has_text |-> FALSE, text |-> <<>>, cause |-> ""]

\* "head" + (has_text: "'" + text + "'") + cause
conversion_error(head, has_text, text, cause) ==
    [head |-> head, has_text |-> has_text, text |-> text, cause |-> cause]

Returned(v, wrapped) == [thrown |-> FALSE, what |-> NoError, v |-> v, wrapped |-> wrapped]

Threw(what, wrapped) == [thrown |-> TRUE, what |-> what, v |-> 0, wrapped |-> wrapped]

report_overflow ==
    Threw(conversion_error(
        "Could not convert string to integer: value out of range.", FALSE, <<>>, ""),
        FALSE)

-----------------------------------------------------------------------------
(* Arithmetic of the checked accumulator.  n * ten, n + d and n - d are    *)
(* first taken as mathematical results (sat: beyond 32 bits, where no      *)
(* modelled type can hold them), then cast to T.  wrapped records that the *)
(* mathematical result did not fit T: for a signed T that is undefined     *)
(* behaviour, for an unsigned T a wrap-around.                             *)

Mul10Wide(n) ==
    IF n > 214748364 \/ n < -214748364
    THEN [sat |-> TRUE, v |-> 0]
    ELSE [sat |-> FALSE, v |-> n * 10]

AddWide(n, d) ==
    IF n > 2147483647 - d
    THEN [sat |-> TRUE, v |-> 0]
    ELSE [sat |-> FALSE, v |-> n + d]

SubWide(n, d) ==
    IF n < (-2147483647 - 1) + d
    THEN [sat |-> TRUE, v |-> 0]
    ELSE [sat |-> FALSE, v |-> n - d]

Wrap(T, x) ==
    LET lo == numeric_limits_min(T)
        size == numeric_limits_max(T) - lo + 1
    IN  lo + ((x - lo) % size)

\* static_cast<T>(w)
Narrow(T, w) ==
    IF w.sat THEN Returned(0, TRUE)
    ELSE IF InRange(T, w.v) THEN Returned(w.v, FALSE)
    ELSE Returned(Wrap(T, w.v), TRUE)

safe_multiply_by_ten(T, n) ==
    LET ten == 10
        high_threshold == numeric_limits_max(T) \div ten
        low_threshold == CDiv(numeric_limits_min(T), ten)
    IN  IF n > high_threshold THEN report_overflow
        ELSE IF is_signed(T) /\ low_threshold > n THEN report_overflow
        ELSE Narrow(T, Mul10Wide(n))

\* safe_add_digit without its threshold test.
safe_add_digit_unchecked(T, n, d) == Narrow(T, AddWide(n, d))

safe_add_digit(T, n, d) ==
    LET high_threshold == numeric_limits_max(T) - d
    IN  IF n > high_threshold THEN report_overflow
        ELSE Narrow(T, AddWide(n, d))

\* safe_sub_digit refusing the threshold itself.
safe_sub_digit_strict(T, n, d) ==
    LET low_threshold == numeric_limits_min(T) + d
    IN  IF n <= low_threshold THEN report_overflow
        ELSE Narrow(T, SubWide(n, d))

safe_sub_digit(T, n, d) ==
    LET low_threshold == numeric_limits_min(T) + d
    IN  IF n < low_threshold THEN report_overflow
        ELSE Narrow(T, SubWide(n, d))

absorb_digit_positive(T, value, digit) ==
    LET m == safe_multiply_by_ten(T, value)
    IN  IF m.thrown THEN m
        ELSE LET a == safe_add_digit(T, m.v, digit)
             IN  [a EXCEPT !.wrapped = a.wrapped \/ m.wrapped]

absorb_digit_negative(T, value, digit) ==
    LET m == safe_multiply_by_ten(T, value)
    IN  IF m.thrown THEN m
        ELSE LET a == safe_sub_digit(T, m.v, digit)
             IN  [a EXCEPT !.wrapped = a.wrapped \/ m.wrapped]

\* for (; isdigit(str.data()[i]); ++i) result = absorb_digit_...(result, digit)
\* Gives the loop's exit: thrown, or result and i at the first non-digit.
RECURSIVE absorb_loop(_, _, _, _, _, _)
absorb_loop(T, str, i, result, negative, wrapped) ==
    IF ~isdigit(CharAt(str, i))
    THEN [thrown |-> FALSE, what |-> NoError, v |-> result, i |-> i, wrapped |-> wrapped]
    ELSE LET d == digit_to_number(CharAt(str, i))
             r == IF negative THEN absorb_digit_negative(T, result, d)
                              ELSE absorb_digit_positive(T, result, d)
         IN  IF r.thrown
             THEN [thrown |-> TRUE, what |-> r.what, v |-> 0, i |-> i,
                   wrapped |-> wrapped \/ r.wrapped]
             ELSE absorb_loop(T, str, i + 1, r.v, negative, wrapped \/ r.wrapped)

\* The outcome of a from_string call on destination obj: thrown or not, the
\* destination after the call, and whether a value outside T was computed.
Outcome(thrown, what, obj, wrapped) ==
    [thrown |-> thrown, what |-> what, obj |-> obj, wrapped |-> wrapped]

\* from_string_end without the test for text after the digits.
from_string_end_lenient(str, l, obj) ==
    IF l.thrown THEN Outcome(TRUE, l.what, obj, l.wrapped)
    ELSE Outcome(FALSE, NoError, l.v, l.wrapped)

\* if (str.data()[i]) throw ...; obj = result;  (l: the digit loop's exit)
from_string_end(str, l, obj) ==
    IF l.thrown THEN Outcome(TRUE, l.what, obj, l.wrapped)
    ELSE IF CharAt(str, l.i) # NUL
    THEN Outcome(TRUE,
             conversion_error("Unexpected text after integer: ", TRUE, str, "."),
             obj, l.wrapped)
    ELSE Outcome(FALSE, NoError, l.v, l.wrapped)

from_string_signed(T, str, obj) ==
    IF isdigit(CharAt(str, 0))
    THEN from_string_end(str, absorb_loop(T, str, 0, 0, FALSE, FALSE), obj)
    ELSE IF CharAt(str, 0) # "-"
    THEN Outcome(TRUE,
             conversion_error("Could not convert string to integer: ", TRUE, str, "."),
             obj, FALSE)
    ELSE from_string_end(str, absorb_loop(T, str, 1, 0, TRUE, FALSE), obj)

from_string_unsigned(T, str, obj) ==
    IF ~isdigit(CharAt(str, 0))
    THEN Outcome(TRUE,
             conversion_error("Could not convert string to unsigned integer: ",
                              TRUE, str, "."),
             obj, FALSE)
    ELSE from_string_end(str, absorb_loop(T, str, 0, 0, FALSE, FALSE), obj)

-----------------------------------------------------------------------------
(* Decimal text of the standard library: what std::to_chars and the        *)
(* stream's operator<< write for an integer, and the value std::from_chars *)
(* reads.  Computed digit by digit without negating, so that the most      *)
(* negative value is within reach.                                         *)

RECURSIVE MagDigits(_)
MagDigits(v) ==
    IF v = 0 THEN <<>>
    ELSE IF v > 0 THEN Append(MagDigits(v \div 10), DigitChars[(v % 10) + 1])
    ELSE LET d == (10 - (v % 10)) % 10
         IN  Append(MagDigits((v + d) \div 10), DigitChars[d + 1])

DecimalText(v) ==
    IF v = 0 THEN <<"0">>
    ELSE IF v < 0 THEN <<"-">> \o MagDigits(v)
    ELSE MagDigits(v)

\* Number of digit characters of str from position i on.
RECURSIVE DigitRun(_, _)
DigitRun(str, i) == IF isdigit(CharAt(str, i)) THEN 1 + DigitRun(str, i + 1) ELSE 0

RECURSIVE StripZeros(_)
StripZeros(ds) == IF ds # <<>> /\ Head(ds) = "0" THEN StripZeros(Tail(ds)) ELSE ds

\* Digit strings without leading zeros, compared as numbers.
RECURSIVE LexLeq(_, _)
LexLeq(a, b) ==
    IF a = <<>> THEN TRUE
    ELSE IF digit_to_number(Head(a)) # digit_to_number(Head(b))
    THEN digit_to_number(Head(a)) < digit_to_number(Head(b))
    ELSE LexLeq(Tail(a), Tail(b))

MagLeq(a, b) == Len(a) < Len(b) \/ (Len(a) = Len(b) /\ LexLeq(a, b))

\* Whether the number written as sign and digits ds lies in T's range.
Representable(T, negative, ds) ==
    LET m == StripZeros(ds)
    IN  IF negative THEN MagLeq(m, MagDigits(numeric_limits_min(T)))
                    ELSE MagLeq(m, MagDigits(numeric_limits_max(T)))

\* The value of a representable number, summed from its digits.
RECURSIVE DigitsValue(_, _, _)
DigitsValue(ds, negative, acc) ==
    IF ds = <<>> THEN acc
    ELSE DigitsValue(Tail(ds), negative,
             IF negative THEN acc * 10 - digit_to_number(Head(ds))
                         ELSE acc * 10 + digit_to_number(Head(ds)))

\* std::from_chars(first, last, value) for an integer type: the longest
\* prefix matching "-"? digit+ (the minus only for a signed type); value is
\* written only when the prefix is a representable number.
std_from_chars(T, in, value) ==
    LET negative == is_signed(T) /\ CharAt(in, 0) = "-"
        first == IF negative THEN 1 ELSE 0
        n == DigitRun(in, first)
        ds == SubSeq(in, first + 1, first + n)
    IN  IF n = 0
        THEN [ec |-> "invalid_argument", ptr |-> 0, value |-> value]
        ELSE IF ~Representable(T, negative, ds)
        THEN [ec |-> "result_out_of_range", ptr |-> first + n, value |-> value]
        ELSE [ec |-> "", ptr |-> first + n,
              value |-> DigitsValue(StripZeros(ds), negative, 0)]

\* builtin_traits<TYPE>::from_string where <charconv> serves the type.
charconv_from_string(T, in, out) ==
    LET end == Len(in)
        res == std_from_chars(T, in, out)
        msg == IF res.ec = "" THEN "Could not parse full string."
               ELSE IF res.ec = "result_out_of_range" THEN "Value out of range."
               ELSE IF res.ec = "invalid_argument" THEN "Invalid argument."
               ELSE ""
    IN  IF res.ec = "" /\ res.ptr = end
        THEN Outcome(FALSE, NoError, res.value, FALSE)
        ELSE Outcome(TRUE, conversion_error("Could not convert ", TRUE, in, msg),
                     res.value, FALSE)

\* builtin_traits<T>::to_string where <charconv> serves the type: the
\* buffer of size_buffer<T>() chars holds every value's text.
charconv_to_string(T, in) == DecimalText(in)

-----------------------------------------------------------------------------
(* Rendering integers by hand *)

\* do { *--begin = number_to_digit(obj % 10); obj = obj / 10; } while (obj > 0);
RECURSIVE to_string_digits(_)
to_string_digits(obj) ==
    LET rest == obj \div 10
    IN  Append(IF rest > 0 THEN to_string_digits(rest) ELSE <<>>,
               number_to_digit(obj % 10))

to_string_unsigned(obj, negative) ==
    IF obj = 0 THEN <<"0">>
    ELSE IF negative THEN <<"-">> \o to_string_digits(obj)
    ELSE to_string_digits(obj)

\* A minimum table whose 16-bit literal is off by one.
minimum_typo(MIN) ==
    CASE MIN = -128 -> <<"-", "1", "2", "8">>
      [] MIN = -32768 -> <<"-", "3", "2", "7", "6", "7">>
      [] MIN = -2147483647 - 1 ->
             <<"-", "2", "1", "4", "7", "4", "8", "3", "6", "4", "8">>
      [] OTHER -> <<>>

\* minimum<MIN>: the hard-coded texts; empty where none is defined.
minimum(MIN) ==
    CASE MIN = -128 -> <<"-", "1", "2", "8">>
      [] MIN = -32768 -> <<"-", "3", "2", "7", "6", "8">>
      [] MIN = -2147483647 - 1 ->
             <<"-", "2", "1", "4", "7", "4", "8", "3", "6", "4", "8">>
      [] OTHER -> <<>>

-----------------------------------------------------------------------------
(* dumb_stringstream: a std::stringstream in the classic locale.  Its      *)
(* state is the buffer, the get position and the iostate flags.            *)

\* dumb_stringstream(): an empty buffer, goodbit.
dumb_stringstream == [buf |-> <<>>, gpos |-> 0, state |-> {}]

ss_good(s) == s.state = {}

ss_fail(s) == s.state \cap {"failbit", "badbit"} # {}

\* str(text): replaces the buffer and rewinds it; the iostate stays.
ss_str_set(s, text) == [s EXCEPT !.buf = text, !.gpos = 0]

\* str(): the buffer's contents.
ss_str_get(s) == s.buf

\* seekg(0): clears eofbit, then seeks unless the stream has failed.
ss_seekg0(s) ==
    LET c == [s EXCEPT !.state = s.state \ {"eofbit"}]
    IN  IF ss_fail(c) THEN c ELSE [c EXCEPT !.gpos = 0]

\* clear(): goodbit.
ss_clear(s) == [s EXCEPT !.state = {}]

\* s << text of a value: appends it, unless the stream is not good, when it
\* sets failbit and writes nothing.
ss_insert(s, text) ==
    IF ~ss_good(s) THEN [s EXCEPT !.state = s.state \cup {"failbit"}]
    ELSE [s EXCEPT !.buf = s.buf \o text]

-----------------------------------------------------------------------------
(* Floating-point values: NaN, the infinities, and the finite value        *)
(* nearest to (-1)^neg * mant / 10^scale.                                  *)

quiet_NaN == [kind |-> "nan", neg |-> FALSE, mant |-> 0, scale |-> 0]

infinity == [kind |-> "inf", neg |-> FALSE, mant |-> 0, scale |-> 0]

Negate(value) == [value EXCEPT !.neg = ~value.neg]

\* An object that was declared and not initialised.
Indeterminate == [kind |-> "indeterminate", neg |-> FALSE, mant |-> 0, scale |-> 0]

RECURSIVE Normal(_, _, _)
Normal(neg, mant, scale) ==
    IF scale > 0 /\ mant % 10 = 0 THEN Normal(neg, mant \div 10, scale - 1)
    ELSE [kind |-> "finite", neg |-> neg, mant |-> mant, scale |-> scale]

set_to_Inf(sign) == IF sign < 0 THEN Negate(infinity) ELSE infinity

isnan(obj) == obj.kind = "nan"

isinf(obj) == obj.kind = "inf"

-----------------------------------------------------------------------------
(* S >> result for a floating-point result, in the classic locale: skips   *)
(* white space, then reads the longest [+-]? digit* ('.' digit* )? it      *)
(* finds.  Texts with an exponent or with a letter of a hexadecimal        *)
(* float after the number are left out of the model's inputs.              *)

RECURSIVE SkipWs(_, _)
SkipWs(buf, i) == IF CharAt(buf, i) = " " THEN SkipWs(buf, i + 1) ELSE i

RECURSIVE DigitsToNat(_, _)
DigitsToNat(ds, acc) ==
    IF ds = <<>> THEN acc
    ELSE DigitsToNat(Tail(ds), acc * 10 + digit_to_number(Head(ds)))

\* The stream and the extracted value; the value is written only when the
\* extraction succeeds.
ss_extract_float(s, result) ==
    IF ~ss_good(s)
    THEN [s |-> [s EXCEPT !.state = s.state \cup {"failbit"}], result |-> result]
    ELSE
    LET n == Len(s.buf)
        p0 == SkipWs(s.buf, s.gpos)
        signed == CharAt(s.buf, p0) \in {"-", "+"}
        p1 == IF signed THEN p0 + 1 ELSE p0
        ni == DigitRun(s.buf, p1)
        p2 == p1 + ni
        point == CharAt(s.buf, p2) = "."
        nf == IF point THEN DigitRun(s.buf, p2 + 1) ELSE 0
        p3 == IF point THEN p2 + 1 + nf ELSE p2
        eof == IF p3 >= n THEN {"eofbit"} ELSE {}
        ds == SubSeq(s.buf, p1 + 1, p1 + ni) \o SubSeq(s.buf, p2 + 2, p2 + 1 + nf)
    IN  IF ni + nf = 0
        THEN [s |-> [s EXCEPT !.gpos = p3, !.state = eof \cup {"failbit"}],
              result |-> result]
        ELSE [s |-> [s EXCEPT !.gpos = p3, !.state = eof],
              result |-> Normal(signed /\ CharAt(s.buf, p0) = "-",
                                DigitsToNat(ds, 0), nf)]

\* s << obj for a finite floating-point obj that max_digits10 digits write
\* exactly: sign, integer digits, and '.' and the fraction digits if any.
FloatText(obj) ==
    LET ds == MagDigits(obj.mant)
        k == Len(ds) - obj.scale
        int == IF k <= 0 THEN <<"0">> ELSE SubSeq(ds, 1, k)
        zeros == [j \in 1..(IF k < 0 THEN -k ELSE 0) |-> "0"]
        frac == IF obj.scale = 0 THEN <<>>
                ELSE <<".">> \o zeros \o SubSeq(ds, (IF k < 0 THEN 0 ELSE k) + 1, Len(ds))
    IN  (IF obj.neg THEN <<"-">> ELSE <<>>) \o int \o frac

-----------------------------------------------------------------------------
(* The fallback conversions that use a thread_local stream.  Each gives    *)
(* the stream as the call leaves it, beside what the call returns.         *)

\* to_string_fallback(obj), text being what s << obj writes for obj.
to_string_fallback(s, text) ==
    LET s1 == ss_str_set(s, <<>>)
        s2 == ss_insert(s1, text)
    IN  [s |-> s2, text |-> ss_str_get(s2)]

to_string_signed(T, obj, s) ==
    LET bottom == numeric_limits_min(T)
    IN  IF obj >= 0 THEN [s |-> s, text |-> to_string_unsigned(obj, FALSE)]
        ELSE IF obj # bottom THEN [s |-> s, text |-> to_string_unsigned(-obj, TRUE)]
        ELSE IF minimum(bottom) # <<>> THEN [s |-> s, text |-> minimum(bottom)]
        ELSE to_string_fallback(s, DecimalText(obj))

\* valid_infinity_string knowing the lower-case spellings only.
valid_infinity_string_lower(str) ==
    \/ equal(<<"i", "n", "f", "i", "n", "i", "t", "y">>, str)
    \/ equal(<<"i", "n", "f">>, str)

valid_infinity_string(str) ==
    \/ equal(<<"i", "n", "f", "i", "n", "i", "t", "y">>, str)
    \/ equal(<<"I", "n", "f", "i", "n", "i", "t", "y">>, str)
    \/ equal(<<"I", "N", "F", "I", "N", "I", "T", "Y">>, str)
    \/ equal(<<"i", "n", "f">>, str)

\* &str[1] read as a zero-terminated string.
FromSecond(str) == IF str = <<>> THEN <<>> ELSE Tail(str)

float_error(str) ==
    conversion_error("Could not convert string to numeric value: ", TRUE, str, ".")

\* Whether from_string_float's switch takes the text for a special spelling
\* (every branch but the stream's).
float_special(str) ==
    \/ CharAt(str, 0) \in {"N", "n", "I", "i"}
    \/ (CharAt(str, 0) = "-" /\ valid_infinity_string(FromSecond(str)))

\* The special branches of the switch: ok and result.
float_special_value(str) ==
    IF CharAt(str, 0) \in {"N", "n"}
    THEN [ok |-> /\ CharAt(str, 1) \in {"A", "a"}
                 /\ CharAt(str, 2) \in {"N", "n"}
                 /\ CharAt(str, 3) = NUL,
          result |-> quiet_NaN]
    ELSE IF CharAt(str, 0) \in {"I", "i"}
    THEN [ok |-> valid_infinity_string(str), result |-> set_to_Inf(1)]
    ELSE [ok |-> TRUE, result |-> set_to_Inf(-1)]

\* from_string_float up to the end of its switch: ok, result and the stream.
from_string_float_switch(str, S) ==
    IF float_special(str)
    THEN [ok |-> float_special_value(str).ok,
          result |-> float_special_value(str).result, S |-> S]
    ELSE LET S1 == ss_seekg0(S)
             S2 == ss_clear(S1)
             S3 == ss_str_set(S2, str)
             x == ss_extract_float(S3, Indeterminate)
         IN  [ok |-> ~ss_fail(x.s), result |-> x.result, S |-> x.s]

\* if (not ok) throw ...; obj = result;
from_string_float_end(str, obj, ok, result) ==
    IF ~ok THEN Outcome(TRUE, float_error(str), obj, FALSE)
    ELSE Outcome(FALSE, NoError, result, FALSE)

\* from_string_float(str, obj): the outcome and the stream after the call.
from_string_float(str, obj, S) ==
    LET r == from_string_float_switch(str, S)
    IN  [out |-> from_string_float_end(str, obj, r.ok, r.result), S |-> r.S]

\* to_string_float that forgets the sign of an infinity.
to_string_float_unsigned(obj, s) ==
    IF isnan(obj) THEN [s |-> s, text |-> <<"n", "a", "n">>]
    ELSE IF isinf(obj)
    THEN [s |-> s, text |-> <<"i", "n", "f", "i", "n", "i", "t", "y">>]
    ELSE to_string_fallback(s, FloatText(obj))

\* to_string_float(obj), with the stream of to_string_fallback.
to_string_float(obj, s) ==
    IF isnan(obj) THEN [s |-> s, text |-> <<"n", "a", "n">>]
    ELSE IF isinf(obj)
    THEN [s |-> s,
          text |-> IF ~obj.neg THEN <<"i", "n", "f", "i", "n", "i", "t", "y">>
                   ELSE <<"-", "i", "n", "f", "i", "n", "i", "t", "y">>]
    ELSE to_string_fallback(s, FloatText(obj))

-----------------------------------------------------------------------------
(* Booleans *)

\* bool_from_string taking "True" and "False" as well.
bool_from_string_titlecase(str, obj) ==
    IF str \in {<<>>, <<"f">>, <<"F">>, <<"0">>, <<"f", "a", "l", "s", "e">>,
                <<"F", "A", "L", "S", "E">>, <<"F", "a", "l", "s", "e">>}
    THEN Outcome(FALSE, NoError, FALSE, FALSE)
    ELSE IF str \in {<<"t">>, <<"T">>, <<"1">>, <<"t", "r", "u", "e">>,
                     <<"T", "R", "U", "E">>, <<"T", "r", "u", "e">>}
    THEN Outcome(FALSE, NoError, TRUE, FALSE)
    ELSE Outcome(TRUE, conversion_error("Failed conversion to bool: ", TRUE, str, "."),
                 obj, FALSE)

bool_from_string(str, obj) ==
    LET size == Len(str)
        r == CASE size = 0 -> [OK |-> TRUE, result |-> FALSE]
               [] size = 1 ->
                    IF str[1] \in {"f", "F", "0"} THEN [OK |-> TRUE, result |-> FALSE]
                    ELSE IF str[1] \in {"t", "T", "1"} THEN [OK |-> TRUE, result |-> TRUE]
                    ELSE [OK |-> FALSE, result |-> FALSE]
               [] size = 4 ->
                    [OK |-> equal(str, <<"t", "r", "u", "e">>)
                            \/ equal(str, <<"T", "R", "U", "E">>),
                     result |-> TRUE]
               [] size = 5 ->
                    [OK |-> equal(str, <<"f", "a", "l", "s", "e">>)
                            \/ equal(str, <<"F", "A", "L", "S", "E">>),
                     result |-> FALSE]
               [] OTHER -> [OK |-> FALSE, result |-> FALSE]
    IN  IF ~r.OK
        THEN Outcome(TRUE, conversion_error("Failed conversion to bool: ", TRUE, str, "."),
                     obj, FALSE)
        ELSE Outcome(FALSE, NoError, r.result, FALSE)

bool_to_string(obj) == IF obj THEN <<"t", "r", "u", "e">> ELSE <<"f", "a", "l", "s", "e">>

-----------------------------------------------------------------------------
(* Public entry points: builtin_traits<T>::from_string and ::to_string.    *)
(* path says whether the build has PQXX_HAVE_CHARCONV_INT ("charconv") or  *)
(* not ("fallback").                                                       *)

Paths == {"charconv", "fallback"}

int_from_string(T, path, str, obj) ==
    IF path = "charconv" THEN charconv_from_string(T, str, obj)
    ELSE IF is_signed(T) THEN from_string_signed(T, str, obj)
    ELSE from_string_unsigned(T, str, obj)

int_to_string(T, path, obj, s) ==
    IF path = "charconv" THEN [s |-> s, text |-> charconv_to_string(T, obj)]
    ELSE IF is_signed(T) THEN to_string_signed(T, obj, s)
    ELSE [s |-> s, text |-> to_string_unsigned(obj, FALSE)]

-----------------------------------------------------------------------------
(* Inputs *)

Threads == {1, 2}

\* The thread that makes the calls of Spec and SpecFloat.
Main == 1

\* The types whose to_string_fallback stream is ever used.
StreamTypes == {"long long", "double"}

RECURSIVE Pow10(_)
Pow10(n) == IF n = 0 THEN 1 ELSE 10 * Pow10(n - 1)

\* Values within Radius of l that T holds.
Near(T, l) ==
    {l + d : d \in {e \in -Radius..Radius :
        /\ (e <= 0 \/ l <= numeric_limits_max(T) - e)
        /\ (e >= 0 \/ l >= numeric_limits_min(T) - e)}}

Landmarks(T) ==
    {numeric_limits_min(T), 0, numeric_limits_max(T)}
    \cup {p \in {Pow10(k) : k \in 1..9} : p <= numeric_limits_max(T)}
    \cup {-p : p \in {q \in {Pow10(k) : k \in 1..9} : -q >= numeric_limits_min(T)}}

IntSamples(T) == UNION {Near(T, l) : l \in Landmarks(T)}

RECURSIVE TextsUpTo(_, _)
TextsUpTo(alphabet, n) ==
    IF n = 0 THEN {<<>>}
    ELSE LET shorter == TextsUpTo(alphabet, n - 1)
         IN  shorter \cup {Append(t, c) : t \in {u \in shorter : Len(u) = n - 1},
                                          c \in alphabet}

IntAlphabet == {"0", "1", "9", "-", "+", "x", " "}

\* The digit string of the next number.
RECURSIVE IncDigits(_)
IncDigits(ds) ==
    IF ds = <<>> THEN <<"1">>
    ELSE LET front == SubSeq(ds, 1, Len(ds) - 1)
             last == digit_to_number(ds[Len(ds)])
         IN  IF last < 9 THEN Append(front, DigitChars[last + 2])
             ELSE Append(IncDigits(front), "0")

RECURSIVE IncBy(_, _)
IncBy(ds, k) == IF k = 0 THEN ds ELSE IncBy(IncDigits(ds), k - 1)

\* Texts around the limits of T: the limits, the numbers just beyond them,
\* ten times them, with leading zeros, a sign, and a trailing character.
BoundaryTexts(T) ==
    LET mags == {MagDigits(numeric_limits_max(T)), MagDigits(numeric_limits_min(T))}
                \ {<<>>}
        around == UNION {{IncBy(m, k) : k \in 0..Radius} : m \in mags}
        forms == around \cup {Append(m, "0") : m \in around}
                        \cup {<<"0", "0">> \o m : m \in around}
    IN  {sign \o m \o tail : sign \in {<<>>, <<"-">>}, m \in forms,
                             tail \in {<<>>, <<"x">>}}

IntSamplesOf == [T \in IntTypes |-> IntSamples(T)]

IntTexts ==
    [T \in IntTypes |->
        TextsUpTo(IntAlphabet, MaxLen)
        \cup {DecimalText(v) : v \in IntSamplesOf[T]}
        \cup BoundaryTexts(T)]

\* What the destination may hold before a call.
IntSlots == {0, 42}

BoolAlphabet == {"t", "T", "f", "F", "0", "1", "x"}

\* word gives each letter in its two cases.
RECURSIVE Casings(_)
Casings(word) ==
    IF word = <<>> THEN {<<>>}
    ELSE {<<c>> \o t : c \in {Head(word)[1], Head(word)[2]}, t \in Casings(Tail(word))}

BoolTexts ==
    TextsUpTo(BoolAlphabet, MaxLen)
    \cup Casings(<<<<"t", "T">>, <<"r", "R">>, <<"u", "U">>, <<"e", "E">>>>)
    \cup Casings(<<<<"f", "F">>, <<"a", "A">>, <<"l", "L">>, <<"s", "S">>, <<"e", "E">>>>)
    \cup {<<"t", "r", "u", "e", " ">>, <<" ", "t", "r", "u", "e">>,
          <<"f", "a", "l", "s", "e", "x">>, <<"f", "a", "l", "s">>,
          <<"y", "e", "s">>, <<"n", "o">>, <<"1", "0", "0", "0">>,
          <<"t", "r", "u", "e", "t", "r", "u", "e">>}

-----------------------------------------------------------------------------
(* Calls of the integer and boolean conversions.  A behaviour is one call: *)
(* Init draws the call's arguments, the destination's contents and the     *)
(* stream as an earlier call may have left it; the action makes the call.  *)

NoCall ==
    [op |-> "none", type |-> "", path |-> "", str |-> <<>>, value |-> 0,
     obj0 |-> 0, done |-> FALSE, thrown |-> FALSE, what |-> NoError, obj |-> 0,
     wrapped |-> FALSE, text |-> <<>>]

\* A value-initialised T, for the fields a call does not use.
ZeroOf(T) ==
    IF T = "bool" THEN FALSE
    ELSE IF T = "double" THEN Normal(FALSE, 0, 0)
    ELSE 0

\* from_string(str, obj) about to be called, obj holding obj0.
ParseCall(T, path, str, obj0) ==
    [NoCall EXCEPT !.op = "from_string", !.type = T, !.path = path, !.str = str,
                   !.value = ZeroOf(T), !.obj0 = obj0, !.obj = obj0]

\* to_string(value) about to be called.
RenderCall(T, path, value) ==
    [NoCall EXCEPT !.op = "to_string", !.type = T, !.path = path, !.value = value,
                   !.obj0 = ZeroOf(T), !.obj = ZeroOf(T)]

Parsed(c, out) ==
    [c EXCEPT !.done = TRUE, !.thrown = out.thrown, !.what = out.what,
              !.obj = out.obj, !.wrapped = out.wrapped]

Rendered(c, text) == [c EXCEPT !.done = TRUE, !.text = text]

IntCalls ==
    UNION {{ParseCall(T, path, str, obj0) :
                path \in Paths, str \in IntTexts[T], obj0 \in IntSlots}
           \cup {RenderCall(T, path, value) : path \in Paths, value \in IntSamplesOf[T]}
           : T \in IntTypes}

BoolCalls ==
    {ParseCall("bool", "fallback", str, obj0) : str \in BoolTexts, obj0 \in BOOLEAN}
    \cup {RenderCall("bool", "fallback", value) : value \in BOOLEAN}

\* The stream of to_string_fallback<long long>: new, or used before.
IntStreams ==
    {dumb_stringstream,
     to_string_fallback(dumb_stringstream,
                        DecimalText(numeric_limits_min("long long"))).s}

\* No row at hand: the window of a default-constructed row.
NoRow == [m_index |-> 0, m_begin |-> 0, m_end |-> 0, columns |-> 0]

\* No row operation made yet.
NoRowOp ==
    [op |-> "none", a |-> 0, b |-> 0, thrown |-> FALSE, what |-> "",
     from |-> NoRow, res |-> NoRow, col |-> 0]

NoRows == row = NoRow /\ rowop = NoRowOp

\* bool ok = false; T result;  and whether the call found its stream used.
NoLocals == [ok |-> FALSE, result |-> Indeterminate, stale |-> FALSE]

NoThreads ==
    /\ tpc = [t \in Threads |-> "idle"]
    /\ treq = [t \in Threads |-> NoCall]
    /\ tres = [t \in Threads |-> NoCall]
    /\ tloc = [t \in Threads |-> NoLocals]
    /\ users = [t \in Threads |-> {}]

Init ==
    /\ (call \in IntCalls \/ call \in BoolCalls)
    /\ istream = [t \in Threads |-> dumb_stringstream]
    /\ \E s \in IntStreams :
           ostream = [t \in Threads |-> [T \in StreamTypes |->
                          IF t = Main /\ T = "long long" THEN s ELSE dumb_stringstream]]
    /\ NoThreads
    /\ NoRows

IntFromString ==
    /\ call.op = "from_string" /\ call.type \in IntTypes /\ ~call.done
    /\ call' = Parsed(call, int_from_string(call.type, call.path, call.str, call.obj0))
    /\ UNCHANGED <<istream, ostream, tpc, treq, tres, tloc, users, row, rowop>>

IntToString ==
    /\ call.op = "to_string" /\ call.type \in IntTypes /\ ~call.done
    /\ LET T == call.type
           r == int_to_string(T, call.path, call.value,
                    IF T \in StreamTypes THEN ostream[Main][T] ELSE dumb_stringstream)
       IN  /\ call' = Rendered(call, r.text)
           /\ ostream' = IF T \in StreamTypes
                         THEN [ostream EXCEPT ![Main][T] = r.s] ELSE ostream
    /\ UNCHANGED <<istream, tpc, treq, tres, tloc, users, row, rowop>>

BoolFromString ==
    /\ call.op = "from_string" /\ call.type = "bool" /\ ~call.done
    /\ call' = Parsed(call, bool_from_string(call.str, call.obj0))
    /\ UNCHANGED <<istream, ostream, tpc, treq, tres, tloc, users, row, rowop>>

BoolToString ==
    /\ call.op = "to_string" /\ call.type = "bool" /\ ~call.done
    /\ call' = Rendered(call, bool_to_string(call.value))
    /\ UNCHANGED <<istream, ostream, tpc, treq, tres, tloc, users, row, rowop>>

Next == IntFromString \/ IntToString \/ BoolFromString \/ BoolToString

Spec == Init /\ [][Next]_vars

-----------------------------------------------------------------------------
(* Properties of the integer and boolean conversions *)

IntParsed == call.done /\ call.op = "from_string" /\ call.type \in IntTypes

IntRendered == call.done /\ call.op = "to_string" /\ call.type \in IntTypes

\* The parts of an integer text: whether it opens with a minus its type
\* reads, where its digits start and how many there are.
Minus(T, str) == is_signed(T) /\ CharAt(str, 0) = "-"

FirstDigit(T, str) == IF Minus(T, str) THEN 1 ELSE 0

Digits(T, str) == SubSeq(str, FirstDigit(T, str) + 1,
                         FirstDigit(T, str) + DigitRun(str, FirstDigit(T, str)))

\* "-"? digit+ and nothing else.
IsNumberText(T, str) ==
    /\ Digits(T, str) # <<>>
    /\ FirstDigit(T, str) + Len(Digits(T, str)) = Len(str)

\* A number T holds, and then at least one more character, not a digit.
HasTrailingText(T, str) ==
    /\ Digits(T, str) # <<>>
    /\ FirstDigit(T, str) + Len(Digits(T, str)) < Len(str)
    /\ Representable(T, Minus(T, str), Digits(T, str))

IsRangeError(what) ==
    \/ what.head = "Could not convert string to integer: value out of range."
    \/ what.cause = "Value out of range."

IsSyntaxError(what) ==
    \/ what.head \in {"Could not convert string to integer: ",
                      "Could not convert string to unsigned integer: ",
                      "Unexpected text after integer: "}
    \/ what.cause \in {"Invalid argument.", "Could not parse full string."}

\* C1: for every integer type and every value v of it, min and max
\* included, parsing the text that to_string gave for v succeeds and gives v,
\* whatever the destination held.
C1_RoundTrip ==
    IntRendered =>
        \A obj0 \in IntSlots :
            LET out == int_from_string(call.type, call.path, call.text, obj0)
            IN  ~out.thrown /\ out.obj = call.value

\* The most negative 64-bit value was rendered by hand.
C1_Witness ==
    /\ IntRendered /\ call.type = "long long" /\ call.path = "fallback"
    /\ call.value = numeric_limits_min("long long")
    /\ call.text = DecimalText(call.value)

\* C2: a text "-"? digit+ whose number is outside T's range fails with the
\* range error, one inside parses to that number, and no parse ever computes
\* a product, sum or difference outside T's range.
C2_RangeChecked ==
    IntParsed =>
        /\ ~call.wrapped
        /\ IsNumberText(call.type, call.str) =>
               IF Representable(call.type, Minus(call.type, call.str),
                                Digits(call.type, call.str))
               THEN /\ ~call.thrown
                    /\ call.obj = DigitsValue(StripZeros(Digits(call.type, call.str)),
                                              Minus(call.type, call.str), 0)
               ELSE call.thrown /\ IsRangeError(call.what)

\* "32768" was refused for a short by the hand-written parser.
C2_Witness ==
    /\ IntParsed /\ call.type = "short" /\ call.path = "fallback"
    /\ call.str = <<"3", "2", "7", "6", "8">>
    /\ call.thrown /\ IsRangeError(call.what)

\* C3: a text made of an integer T holds and then a character that is not a
\* digit fails with a syntax error, with and without <charconv>.
C3_TrailingTextFails ==
    (IntParsed /\ HasTrailingText(call.type, call.str)) =>
        call.thrown /\ IsSyntaxError(call.what) /\ ~IsRangeError(call.what)

\* "19x" was refused by the hand-written parser.
C3_Witness ==
    /\ IntParsed /\ call.path = "fallback" /\ call.str = <<"1", "9", "x">>
    /\ call.thrown /\ call.what.head = "Unexpected text after integer: "

\* C4: the empty text fails; for a signed type a '-' with no digit after it
\* fails; for an unsigned type any text that starts with '-' fails; a
\* leading '+' fails.
C4_DigitRequired ==
    IntParsed =>
        /\ call.str = <<>> => call.thrown /\ IsSyntaxError(call.what)
        /\ (is_signed(call.type) /\ CharAt(call.str, 0) = "-"
                /\ ~isdigit(CharAt(call.str, 1))) => call.thrown
        /\ (~is_signed(call.type) /\ CharAt(call.str, 0) = "-") => call.thrown
        /\ CharAt(call.str, 0) = "+" => call.thrown

\* C5: a from_string that throws leaves the destination as it was.
C5_DestinationUntouched ==
    (call.done /\ call.op = "from_string" /\ call.thrown) => call.obj = call.obj0

BoolFalseTexts ==
    {<<>>, <<"f">>, <<"F">>, <<"0">>, <<"f", "a", "l", "s", "e">>,
     <<"F", "A", "L", "S", "E">>}

BoolTrueTexts ==
    {<<"t">>, <<"T">>, <<"1">>, <<"t", "r", "u", "e">>, <<"T", "R", "U", "E">>}

\* C6: the boolean parser gives false on "", f, F, 0, false, FALSE, true on
\* t, T, 1, true, TRUE, and fails on every other text; to_string gives "true"
\* and "false", which parse back to the value rendered.
C6_Bool ==
    (call.done /\ call.type = "bool") =>
        IF call.op = "from_string"
        THEN /\ call.str \in BoolFalseTexts => ~call.thrown /\ call.obj = FALSE
             /\ call.str \in BoolTrueTexts => ~call.thrown /\ call.obj = TRUE
             /\ call.str \notin BoolFalseTexts \cup BoolTrueTexts =>
                    /\ call.thrown
                    /\ call.what.head = "Failed conversion to bool: "
        ELSE /\ call.text = IF call.value THEN <<"t", "r", "u", "e">>
                            ELSE <<"f", "a", "l", "s", "e">>
             /\ \A obj0 \in BOOLEAN :
                    LET out == bool_from_string(call.text, obj0)
                    IN  ~out.thrown /\ out.obj = call.value

\* "True" was refused.
C6_Witness ==
    /\ call.done /\ call.type = "bool" /\ call.op = "from_string"
    /\ call.str = <<"T", "r", "u", "e">> /\ call.thrown

-----------------------------------------------------------------------------
(* Calls of the floating-point conversions, by one thread: Init draws the  *)
(* call and the two streams as an earlier call may have left them.         *)

\* Longest text drawn from FloatAlphabet.
FloatLen == 2

FloatAlphabet == {"1", "5", ".", "-", "+", " ", "z"}

NanWord == <<<<"n", "N">>, <<"a", "A">>, <<"n", "N">>>>

InfWord == <<<<"i", "I">>, <<"n", "N">>, <<"f", "F">>>>

InfinityWord ==
    <<<<"i", "I">>, <<"n", "N">>, <<"f", "F">>, <<"i", "I">>, <<"n", "N">>,
      <<"i", "I">>, <<"t", "T">>, <<"y", "Y">>>>

SpecialTexts ==
    LET words == Casings(NanWord) \cup Casings(InfWord) \cup Casings(InfinityWord)
    IN  words \cup {<<"-">> \o w : w \in words}

FloatTexts ==
    TextsUpTo(FloatAlphabet, FloatLen)
    \cup SpecialTexts
    \cup {<<"n">>, <<"n", "a">>, <<"n", "a", "n", "1">>, <<"n", "a", "n", " ">>,
          <<"N", "a", "N", "z">>, <<"i">>, <<"i", "n">>, <<"i", "n", "f", "1">>,
          <<"i", "n", "f", "i">>, <<"i", "n", "f", "i", "n", "i", "t">>,
          <<"I", "n", "f", "i", "n", "i", "t", "y", "y">>, <<"-", "i">>,
          <<"-", "i", "n", "f", " ">>, <<"+", "i", "n", "f">>,
          <<"-", "-", "i", "n", "f">>, <<" ", "i", "n", "f">>,
          <<"1", ".", "5">>, <<"-", "1", ".", "5">>, <<"1", " ", "5">>,
          <<"1", ".", "5", "z">>, <<" ", "1", ".", "5">>, <<"1", ".", "5", " ">>,
          <<"1", ".", ".", "5">>, <<"1", "5", ".", "5", "0">>, <<" ", " ", " ">>,
          <<"-", ".", "z">>, <<"0", ".", "5">>}

FloatSlots == {Normal(FALSE, 42, 0), quiet_NaN}

\* Values to render; the finite ones are written exactly by max_digits10 digits.
FloatValues ==
    {quiet_NaN, infinity, Negate(infinity), Normal(FALSE, 0, 0), Normal(FALSE, 1, 0),
     Normal(FALSE, 15, 1), Normal(TRUE, 15, 1), Normal(FALSE, 5, 1),
     Normal(TRUE, 125, 0)}

FloatCalls ==
    {ParseCall("double", "fallback", str, obj0) : str \in FloatTexts, obj0 \in FloatSlots}
    \cup {RenderCall("double", "fallback", value) : value \in FloatValues}

\* The stream S of from_string_float: new, or as an earlier parse left it.
FloatInStreams ==
    {dumb_stringstream}
    \cup {from_string_float(str, quiet_NaN, dumb_stringstream).S :
              str \in {<<>>, <<"1">>, <<"1", "z">>, <<"z">>, <<"i", "n", "f">>}}

\* The stream s of to_string_fallback<double>: new, or used before.
FloatOutStreams ==
    {dumb_stringstream, to_string_fallback(dumb_stringstream, <<"1", ".", "5">>).s}

InitFloat ==
    /\ call \in FloatCalls
    /\ \E S \in FloatInStreams :
           istream = [t \in Threads |-> IF t = Main THEN S ELSE dumb_stringstream]
    /\ \E s \in FloatOutStreams :
           ostream = [t \in Threads |-> [T \in StreamTypes |->
                          IF t = Main /\ T = "double" THEN s ELSE dumb_stringstream]]
    /\ NoThreads
    /\ NoRows

FloatFromString ==
    /\ call.op = "from_string" /\ call.type = "double" /\ ~call.done
    /\ LET r == from_string_float(call.str, call.obj0, istream[Main])
       IN  /\ call' = Parsed(call, r.out)
           /\ istream' = [istream EXCEPT ![Main] = r.S]
    /\ UNCHANGED <<ostream, tpc, treq, tres, tloc, users, row, rowop>>

FloatToString ==
    /\ call.op = "to_string" /\ call.type = "double" /\ ~call.done
    /\ LET r == to_string_float(call.value, ostream[Main]["double"])
       IN  /\ call' = Rendered(call, r.text)
           /\ ostream' = [ostream EXCEPT ![Main]["double"] = r.s]
    /\ UNCHANGED <<istream, tpc, treq, tres, tloc, users, row, rowop>>

NextFloat == FloatFromString \/ FloatToString

SpecFloat == InitFloat /\ [][NextFloat]_vars

-----------------------------------------------------------------------------
(* Properties of the floating-point conversions *)

FloatParsed == call.done /\ call.op = "from_string" /\ call.type = "double"

FloatRendered == call.done /\ call.op = "to_string" /\ call.type = "double"

LowerChar(c) ==
    CASE c = "N" -> "n" [] c = "A" -> "a" [] c = "I" -> "i" [] c = "F" -> "f"
      [] c = "T" -> "t" [] c = "Y" -> "y" [] OTHER -> c

Lower(str) == [k \in 1..Len(str) |-> LowerChar(str[k])]

NanText == <<"n", "a", "n">>

InfText == <<"i", "n", "f">>

InfinityText == <<"i", "n", "f", "i", "n", "i", "t", "y">>

\* The four spellings of infinity that valid_infinity_string lists.
ListedInfinity ==
    {InfText, InfinityText, <<"I", "n", "f", "i", "n", "i", "t", "y">>,
     <<"I", "N", "F", "I", "N", "I", "T", "Y">>}

\* C7, as claimed: every casing of nan gives NaN, every casing of inf and of
\* infinity gives +infinity, and -infinity after a '-'; any other text
\* starting with n, N, i or I fails.
C7_AnyCasing ==
    FloatParsed =>
        /\ Lower(call.str) = NanText => ~call.thrown /\ call.obj = quiet_NaN
        /\ Lower(call.str) \in {InfText, InfinityText} =>
               ~call.thrown /\ call.obj = infinity
        /\ Lower(call.str) \in {<<"-">> \o InfText, <<"-">> \o InfinityText} =>
               ~call.thrown /\ call.obj = Negate(infinity)
        /\ (CharAt(call.str, 0) \in {"n", "N", "i", "I"}
                /\ Lower(call.str) \notin {NanText, InfText, InfinityText}) =>
               call.thrown

\* C7, amended: every casing of nan gives NaN; inf, infinity, Infinity and
\* INFINITY give +infinity, and -infinity after a '-'; every other casing of
\* inf and infinity, with or without the '-', and every other text starting
\* with n, N, i or I fails.
C7_ListedSpellings ==
    FloatParsed =>
        /\ Lower(call.str) = NanText => ~call.thrown /\ call.obj = quiet_NaN
        /\ call.str \in ListedInfinity => ~call.thrown /\ call.obj = infinity
        /\ (CharAt(call.str, 0) = "-" /\ FromSecond(call.str) \in ListedInfinity) =>
               ~call.thrown /\ call.obj = Negate(infinity)
        /\ (Lower(call.str) \in {InfText, InfinityText}
                /\ call.str \notin ListedInfinity) => call.thrown
        /\ (CharAt(call.str, 0) = "-"
                /\ Lower(FromSecond(call.str)) \in {InfText, InfinityText}
                /\ FromSecond(call.str) \notin ListedInfinity) => call.thrown
        /\ (CharAt(call.str, 0) \in {"n", "N", "i", "I"}
                /\ Lower(call.str) # NanText
                /\ call.str \notin ListedInfinity) => call.thrown

\* "-Infinity" was parsed to -infinity.
C7_Witness ==
    /\ FloatParsed
    /\ call.str = <<"-", "I", "n", "f", "i", "n", "i", "t", "y">>
    /\ ~call.thrown /\ call.obj = Negate(infinity)

\* The text went to the stream parser, not to a special spelling.
ReadByStream(str) ==
    /\ CharAt(str, 0) \notin {"n", "N", "i", "I"}
    /\ ~(CharAt(str, 0) = "-" /\ valid_infinity_string(FromSecond(str)))

\* C8: a text that is no special spelling parses only if the stream parser
\* read all of it; with anything left unread the call fails.
C8_WholeInputConsumed ==
    (FloatParsed /\ ReadByStream(call.str) /\ ~call.thrown) =>
        /\ istream[Main].buf = call.str
        /\ istream[Main].gpos = Len(call.str)

\* C9: to_string gives exactly "nan", "infinity" and "-infinity" for NaN,
\* +infinity and -infinity, and from_string gives the same value back.
C9_SpecialValues ==
    (FloatRendered /\ (isnan(call.value) \/ isinf(call.value))) =>
        /\ call.text = IF isnan(call.value) THEN NanText
                       ELSE IF call.value.neg THEN <<"-">> \o InfinityText
                       ELSE InfinityText
        /\ \A obj0 \in FloatSlots :
               LET out == from_string_float(call.text, obj0, istream[Main]).out
               IN  ~out.thrown /\ out.obj = call.value

\* -infinity was rendered.
C9_Witness ==
    /\ FloatRendered /\ call.value = Negate(infinity)
    /\ call.text = <<"-">> \o InfinityText


\* ---------------------------------------------------------------------------
\* Conversions on several threads, one statement of the stream code per step.

ThreadTexts == {<<"1">>, <<"1", "z">>, <<"z">>, <<"-", "i", "n", "f">>}

ThreadValues == {Normal(FALSE, 15, 1), Normal(FALSE, 1, 0), set_to_Inf(-1)}

ThreadCalls ==
    {ParseCall("double", "fallback", str, quiet_NaN) : str \in ThreadTexts}
    \cup {RenderCall("double", "fallback", value) : value \in ThreadValues}

\* A stream declared static, one instance for the whole process.
StreamOf_static(t) == Main

\* thread_local dumb_stringstream<T>: the instance of the calling thread.
StreamOf(t) == t

\* Thread t touches the stream instance it resolves to.
Use(t) == users' = [users EXCEPT ![StreamOf(t)] = @ \cup {t}]

InitThreads ==
    /\ call = NoCall
    /\ istream = [t \in Threads |-> dumb_stringstream]
    /\ ostream = [t \in Threads |-> [T \in StreamTypes |-> dumb_stringstream]]
    /\ NoThreads
    /\ NoRows

\* A thread enters from_string_float (bool ok = false; T result;) or
\* to_string_float.
Begin(t) ==
    /\ tpc[t] = "idle"
    /\ \E c \in ThreadCalls :
           /\ treq' = [treq EXCEPT ![t] = c]
           /\ tpc' = [tpc EXCEPT ![t] = IF c.op = "from_string" THEN "switch"
                                        ELSE "to_string_float"]
    /\ tres' = [tres EXCEPT ![t] = NoCall]
    /\ tloc' = [tloc EXCEPT ![t] = NoLocals]
    /\ UNCHANGED <<call, istream, ostream, users, row, rowop>>

\* switch (str[0]): the special spellings, or on to the stream.
Switch(t) ==
    /\ tpc[t] = "switch"
    /\ IF float_special(treq[t].str)
       THEN /\ tloc' = [tloc EXCEPT ![t].ok = float_special_value(treq[t].str).ok,
                                    ![t].result = float_special_value(treq[t].str).result]
            /\ tpc' = [tpc EXCEPT ![t] = "end"]
       ELSE /\ tpc' = [tpc EXCEPT ![t] = "seekg"]
            /\ UNCHANGED tloc
    /\ UNCHANGED <<call, istream, ostream, treq, tres, users, row, rowop>>

\* S.seekg(0);
Seekg(t) ==
    /\ tpc[t] = "seekg"
    /\ istream' = [istream EXCEPT ![StreamOf(t)] = ss_seekg0(@)]
    /\ Use(t)
    /\ tloc' = [tloc EXCEPT ![t].stale = ~ss_good(istream[StreamOf(t)])]
    /\ tpc' = [tpc EXCEPT ![t] = "clear"]
    /\ UNCHANGED <<call, ostream, treq, tres, row, rowop>>

\* S.clear();
Clear(t) ==
    /\ tpc[t] = "clear"
    /\ istream' = [istream EXCEPT ![StreamOf(t)] = ss_clear(@)]
    /\ Use(t)
    /\ tpc' = [tpc EXCEPT ![t] = "str"]
    /\ UNCHANGED <<call, ostream, treq, tres, tloc, row, rowop>>

\* S.str(std::string{str});
Str(t) ==
    /\ tpc[t] = "str"
    /\ istream' = [istream EXCEPT ![StreamOf(t)] = ss_str_set(@, treq[t].str)]
    /\ Use(t)
    /\ tpc' = [tpc EXCEPT ![t] = "extract"]
    /\ UNCHANGED <<call, ostream, treq, tres, tloc, row, rowop>>

\* ok = static_cast<bool>(S >> result);
Extract(t) ==
    /\ tpc[t] = "extract"
    /\ LET x == ss_extract_float(istream[StreamOf(t)], tloc[t].result)
       IN  /\ istream' = [istream EXCEPT ![StreamOf(t)] = x.s]
           /\ tloc' = [tloc EXCEPT ![t].ok = ~ss_fail(x.s), ![t].result = x.result]
    /\ Use(t)
    /\ tpc' = [tpc EXCEPT ![t] = "end"]
    /\ UNCHANGED <<call, ostream, treq, tres, row, rowop>>

\* if (not ok) throw ...; obj = result;
End(t) ==
    /\ tpc[t] = "end"
    /\ tres' = [tres EXCEPT ![t] =
                   Parsed(treq[t], from_string_float_end(treq[t].str, treq[t].obj0,
                                                         tloc[t].ok, tloc[t].result))]
    /\ tpc' = [tpc EXCEPT ![t] = "idle"]
    /\ UNCHANGED <<call, istream, ostream, treq, tloc, users, row, rowop>>

\* to_string_float: "nan" and the infinities return at once, any other value
\* goes to to_string_fallback.
ToStringFloat(t) ==
    /\ tpc[t] = "to_string_float"
    /\ IF isnan(treq[t].value) \/ isinf(treq[t].value)
       THEN /\ tres' = [tres EXCEPT ![t] =
                   Rendered(treq[t], to_string_float(treq[t].value, dumb_stringstream).text)]
            /\ tpc' = [tpc EXCEPT ![t] = "idle"]
       ELSE /\ tpc' = [tpc EXCEPT ![t] = "str_empty"]
            /\ UNCHANGED tres
    /\ UNCHANGED <<call, istream, ostream, treq, tloc, users, row, rowop>>

\* s.str("");
StrEmpty(t) ==
    /\ tpc[t] = "str_empty"
    /\ ostream' = [ostream EXCEPT ![StreamOf(t)]["double"] = ss_str_set(@, <<>>)]
    /\ Use(t)
    /\ tloc' = [tloc EXCEPT ![t].stale = ss_str_get(ostream[StreamOf(t)]["double"]) # <<>>]
    /\ tpc' = [tpc EXCEPT ![t] = "insert"]
    /\ UNCHANGED <<call, istream, treq, tres, row, rowop>>

\* s << obj;
Insert(t) ==
    /\ tpc[t] = "insert"
    /\ ostream' = [ostream EXCEPT ![StreamOf(t)]["double"] =
                       ss_insert(@, FloatText(treq[t].value))]
    /\ Use(t)
    /\ tpc' = [tpc EXCEPT ![t] = "return"]
    /\ UNCHANGED <<call, istream, treq, tres, tloc, row, rowop>>

\* return s.str();
Return(t) ==
    /\ tpc[t] = "return"
    /\ tres' = [tres EXCEPT ![t] =
                   Rendered(treq[t], ss_str_get(ostream[StreamOf(t)]["double"]))]
    /\ Use(t)
    /\ tpc' = [tpc EXCEPT ![t] = "idle"]
    /\ UNCHANGED <<call, istream, ostream, treq, tloc, row, rowop>>

NextThreads ==
    \E t \in Threads :
        \/ Begin(t)
        \/ Switch(t)
        \/ Seekg(t)
        \/ Clear(t)
        \/ Str(t)
        \/ Extract(t)
        \/ End(t)
        \/ ToStringFloat(t)
        \/ StrEmpty(t)
        \/ Insert(t)
        \/ Return(t)

SpecThreads == InitThreads /\ [][NextThreads]_vars


\* ---------------------------------------------------------------------------
\* Properties of the conversions on several threads.

\* What the call c gives when nothing ran before it: a new stream, no other
\* thread.
AloneOutcome(c) ==
    IF c.op = "from_string"
    THEN Parsed(c, from_string_float(c.str, c.obj0, dumb_stringstream).out)
    ELSE Rendered(c, to_string_float(c.value, dumb_stringstream).text)

\* Thread t has finished a call.
Finished(t) == tpc[t] = "idle" /\ treq[t].op # "none"

\* C10: whatever calls a thread made before, failed ones included, and however
\* the other threads' conversions interleave with it, a finished call has the
\* outcome (value, text or error) that its input alone gives; and the streams
\* of a thread are used by that thread only.
C10_InputAlone ==
    \A t \in Threads :
        /\ Finished(t) => tres[t] = AloneOutcome(treq[t])
        /\ users[t] \subseteq {t}

\* A thread has parsed a number with a stream that an earlier call of its own
\* had left in an error or end-of-input state, while another thread, which has
\* used its stream too, is in the middle of a conversion.
C10_Witness ==
    \E t \in Threads, u \in Threads :
        /\ t # u
        /\ Finished(t) /\ treq[t].op = "from_string"
        /\ ~tres[t].thrown /\ tloc[t].stale
        /\ tpc[u] \notin {"idle"} /\ users[u] # {}


\* ---------------------------------------------------------------------------
\* Properties of the error messages.

\* C11: every failure of a parser, the integer overflow failure included, is
\* raised with a message that includes the text that was passed.
C11_MessageHasText ==
    (call.done /\ call.op = "from_string" /\ call.thrown)
        => (call.what.has_text /\ call.what.text = call.str)


\* ---------------------------------------------------------------------------
\* Properties of rendering signed integers by hand.

\* to_string_signed has returned.
SignedRendered == IntRendered /\ call.path = "fallback" /\ is_signed(call.type)

\* What every claim about to_string_signed says of the values above the
\* type's minimum: '-' and the digits of the magnitude, and "0" for zero.
AboveMinimumText ==
    (SignedRendered /\ call.value # numeric_limits_min(call.type))
        => call.text = IF call.value = 0 THEN <<"0">>
                       ELSE IF call.value < 0 THEN <<"-">> \o MagDigits(call.value)
                       ELSE MagDigits(call.value)

\* C12 as stated: for every signed width the most negative value is rendered
\* as the literal the minimum table holds for it; every other negative value
\* as '-' and the digits of its magnitude, zero as "0".
C12_MinimumFromTable ==
    /\ (SignedRendered /\ call.value = numeric_limits_min(call.type))
           => /\ minimum(call.value) # <<>>
              /\ call.text = minimum(call.value)
    /\ AboveMinimumText

\* C12, amended: the 16 and 32 bit minimum are rendered as the literal of the
\* minimum table, which is the exact decimal text of the value; the widest
\* type has no literal in the table and its minimum is rendered by the
\* thread's stream, which gives the exact decimal text too; every other
\* negative value is '-' and the digits of its magnitude, zero is "0".
C12_MinimumText ==
    /\ (SignedRendered /\ call.value = numeric_limits_min(call.type))
           => /\ call.text = DecimalText(call.value)
              /\ call.type \in {"short", "int"}
                     => (minimum(call.value) # <<>> /\ call.text = minimum(call.value))
              /\ call.type = "long long"
                     => /\ minimum(call.value) = <<>>
                        /\ ss_str_get(ostream[Main]["long long"]) = call.text
    /\ AboveMinimumText

\* The widest signed type's minimum has been rendered.
C12_Witness ==
    /\ SignedRendered
    /\ call.type = "long long"
    /\ call.value = numeric_limits_min("long long")
    /\ call.text # <<>>


\* ---------------------------------------------------------------------------
\* Rows and their slices (row.cxx).  A row is a window [m_begin, m_end) on
\* row m_index of a result with the given number of columns.  size_type is
\* an unsigned type: indexes and offsets are natural numbers.

\* Most columns a result has.
MaxColumns == 3

\* Most rows a result has.
MaxRows == 2

\* Arguments passed for an index or an offset.
RowArgs == 0 .. MaxColumns + 1

\* row::row(result const &r, result::size_type i): m_begin{0} by its default
\* member initialiser, m_end{r.columns()}.
row_new(columns, i) ==
    [m_index |-> i, m_begin |-> 0, m_end |-> columns, columns |-> columns]

\* row::size()
row_size(r) == r.m_end - r.m_begin

\* field{*this, col}: a field is named by its row and its column in the
\* result.
field(r, col) == [m_row |-> r.m_index, m_col |-> col]

\* row::operator[](size_type i)
row_subscript(r, i) == field(r, r.m_begin + i)

\* row::at(size_type i): whether it throws, and the field it returns.
row_at(r, i) ==
    IF i >= row_size(r)
    THEN [thrown |-> TRUE, what |-> "Invalid field number.", field |-> field(r, 0)]
    ELSE [thrown |-> FALSE, what |-> "", field |-> row_subscript(r, i)]

\* row::slice that takes sbegin and send for columns of the result.
row_slice_absolute(r, sbegin, send) ==
    IF sbegin > send \/ send > row_size(r)
    THEN [thrown |-> TRUE, what |-> "Invalid field range.", res |-> r]
    ELSE [thrown |-> FALSE, what |-> "",
          res |-> [r EXCEPT !.m_begin = sbegin, !.m_end = send]]

\* row::slice(size_type sbegin, size_type send)
row_slice(r, sbegin, send) ==
    IF sbegin > send \/ send > row_size(r)
    THEN [thrown |-> TRUE, what |-> "Invalid field range.", res |-> r]
    ELSE [thrown |-> FALSE, what |-> "",
          res |-> [r EXCEPT !.m_begin = r.m_begin + sbegin,
                            !.m_end = r.m_begin + send]]

InitRow ==
    /\ call = NoCall
    /\ istream = [t \in Threads |-> dumb_stringstream]
    /\ ostream = [t \in Threads |-> [T \in StreamTypes |-> dumb_stringstream]]
    /\ NoThreads
    /\ \E columns \in 0 .. MaxColumns, i \in 0 .. MaxRows - 1 :
           row = row_new(columns, i)
    /\ rowop = NoRowOp

\* res = r.slice(sbegin, send); the slice, when there is one, is the row at
\* hand from then on.
Slice ==
    \E sbegin \in RowArgs, send \in RowArgs :
        LET x == row_slice(row, sbegin, send)
        IN  /\ rowop' = [NoRowOp EXCEPT !.op = "slice", !.a = sbegin, !.b = send,
                                        !.thrown = x.thrown, !.what = x.what,
                                        !.from = row, !.res = x.res]
            /\ row' = IF x.thrown THEN row ELSE x.res
            /\ UNCHANGED <<call, istream, ostream, tpc, treq, tres, tloc, users>>

\* r.at(i)
At ==
    \E i \in RowArgs :
        LET x == row_at(row, i)
        IN  /\ rowop' = [NoRowOp EXCEPT !.op = "at", !.a = i,
                                        !.thrown = x.thrown, !.what = x.what,
                                        !.from = row, !.res = row,
                                        !.col = x.field.m_col]
            /\ UNCHANGED <<call, istream, ostream, tpc, treq, tres, tloc, users, row>>

NextRow == Slice \/ At

SpecRow == InitRow /\ [][NextRow]_vars

=============================================================================
